---- MODULE Spec2Model ----
(***************************************************************************)
(* PhotoAI Navigator: the flat photo store and its HTTP API                *)
(* (src/api/main.py), the normalized image/tag store                       *)
(* (src/database/db.py) and the keyword search of the image processor      *)
(* (src/processing/image_processor.py).                                    *)
(*                                                                         *)
(* Text is modelled as a sequence of one-character strings, so that JSON   *)
(* encoding, SQL LIKE and SQL text comparison are computed character by    *)
(* character.  Python's None and SQL's NULL are the value None.            *)
(***************************************************************************)
EXTENDS Integers, Sequences, FiniteSets, TLC

VARIABLES
    photos,      \* flat store: rows of table photos, in rowid order
    started,     \* the API process has run its startup event
    resp,        \* the last request handled by the API and its outcome
    tasks,       \* background tasks scheduled and not yet finished
    images,      \* normalized store: rows of table images, in rowid order
    tags,        \* normalized store: rows of table tags, in rowid order
    image_tags,  \* normalized store: rows of table image_tags (a set of pairs)
    ret,         \* the last DatabaseManager or processor call and what it returned
    conns        \* flat store: the connections of db_update_photo_tags calls under way

vars == <<photos, started, resp, tasks, images, tags, image_tags, ret, conns>>
flatVars == <<photos, started, resp, tasks, conns>>
normVars == <<images, tags, image_tags, ret>>

\* ------------------------------------------------------------------ bounds

\* most background sync tasks pending at once
MaxTasks == 2
\* largest rowid of table tags (add_tag is not taken beyond it)
MaxTagId == 2

\* ------------------------------------------------------------------ values

None == <<"None">>
NoneList == << <<"None">> >>

\* Python truthiness of an Optional[str] and of an Optional[List[str]]
Truthy(x) == x # None /\ x # <<>>
TruthyList(x) == x # NoneList /\ x # <<>>

Range(s) == {s[i] : i \in 1..Len(s)}

\* characters in ascending code-point order (the part of Unicode the model uses)
CodeOrder ==
    <<" ", "\"", "%", "'", ",", "-", ".", "/",
      "0", "1", "2", "3", "4", "5", "6", "7", "8", "9", ":",
      "A", "B", "C", "D", "E", "F", "G", "H", "I", "J", "K", "L", "M",
      "N", "O", "P", "Q", "R", "S", "T", "U", "V", "W", "X", "Y", "Z",
      "[", "\\", "]", "_",
      "a", "b", "c", "d", "e", "f", "g", "h", "i", "j", "k", "l", "m",
      "n", "o", "p", "q", "r", "s", "t", "u", "v", "w", "x", "y", "z",
      "U+041F", "U+0426", "U+0430", "U+0435", "U+0436", "U+043B", "U+043C", "U+043D",
      "U+043F", "U+0440", "U+0441", "U+0442", "U+0446", "U+0447", "U+044F", "U+0456">>

OrdTable == [c \in Range(CodeOrder) |-> CHOOSE i \in 1..Len(CodeOrder) : CodeOrder[i] = c]
Ord(c) == OrdTable[c]

\* first index of CodeOrder beyond ASCII
FirstNonAscii == Ord("U+041F")
IsAscii(c) == Ord(c) < FirstNonAscii

\* SQLite's BINARY collation on text: s < t, s <= t
RECURSIVE TextLess(_, _)
TextLess(s, t) ==
    IF t = <<>> THEN FALSE
    ELSE IF s = <<>> THEN TRUE
    ELSE IF Head(s) = Head(t) THEN TextLess(Tail(s), Tail(t))
    ELSE Ord(Head(s)) < Ord(Head(t))

TextLeq(s, t) == s = t \/ TextLess(s, t)

\* ------------------------------------------------------------------ SQL LIKE

\* SQLite folds the 26 ASCII letters only
sqlite3UpperToLower ==
    [c \in Range(CodeOrder) |->
        IF Ord(c) >= Ord("A") /\ Ord(c) <= Ord("Z")
        THEN CodeOrder[Ord(c) - Ord("A") + Ord("a")]
        ELSE c]

sqlite_tolower(c) == sqlite3UpperToLower[c]

\* SQLite's patternCompare for LIKE without ESCAPE: % is any run of
\* characters, _ is any one character, other characters match ignoring ASCII case
RECURSIVE patternCompare(_, _, _, _)
patternCompare(pat, i, txt, j) ==
    IF i > Len(pat) THEN j > Len(txt)
    ELSE IF pat[i] = "%"
         THEN \E k \in j..(Len(txt) + 1) : patternCompare(pat, i + 1, txt, k)
    ELSE /\ j <= Len(txt)
         /\ (pat[i] = "_" \/ sqlite_tolower(pat[i]) = sqlite_tolower(txt[j]))
         /\ patternCompare(pat, i + 1, txt, j + 1)

\* column LIKE pattern, as a WHERE term: NULL LIKE p is NULL, which excludes the row
Like(column, pat) == column # None /\ patternCompare(pat, 1, column, 1)

\* ------------------------------------------------------------------ JSON

\* the four hex digits of \uXXXX for the non-ASCII characters
UnicodeHex(c) ==
    CASE c = "U+041F" -> <<"0", "4", "1", "f">>
      [] c = "U+0426" -> <<"0", "4", "2", "6">>
      [] c = "U+0430" -> <<"0", "4", "3", "0">>
      [] c = "U+0435" -> <<"0", "4", "3", "5">>
      [] c = "U+0436" -> <<"0", "4", "3", "6">>
      [] c = "U+043B" -> <<"0", "4", "3", "b">>
      [] c = "U+043C" -> <<"0", "4", "3", "c">>
      [] c = "U+043D" -> <<"0", "4", "3", "d">>
      [] c = "U+043F" -> <<"0", "4", "3", "f">>
      [] c = "U+0440" -> <<"0", "4", "4", "0">>
      [] c = "U+0441" -> <<"0", "4", "4", "1">>
      [] c = "U+0442" -> <<"0", "4", "4", "2">>
      [] c = "U+0446" -> <<"0", "4", "4", "6">>
      [] c = "U+0447" -> <<"0", "4", "4", "7">>
      [] c = "U+044F" -> <<"0", "4", "4", "f">>
      [] c = "U+0456" -> <<"0", "4", "5", "6">>

NonAsciiChars == {CodeOrder[i] : i \in FirstNonAscii..Len(CodeOrder)}

\* json.dumps of one character inside a string (ensure_ascii=True, the default)
encode_char(c) ==
    IF c = "\"" THEN <<"\\", "\"">>
    ELSE IF c = "\\" THEN <<"\\", "\\">>
    ELSE IF IsAscii(c) THEN <<c>>
    ELSE <<"\\", "u">> \o UnicodeHex(c)

RECURSIVE encode_basestring_ascii(_)
encode_basestring_ascii(s) ==
    IF s = <<>> THEN <<>>
    ELSE encode_char(Head(s)) \o encode_basestring_ascii(Tail(s))

\* json.dumps(list of str): ["..", ".."] with ", " between the items
RECURSIVE json_dumps_items(_)
json_dumps_items(l) ==
    IF l = <<>> THEN <<>>
    ELSE <<"\"">> \o encode_basestring_ascii(Head(l)) \o <<"\"">>
         \o (IF Tail(l) = <<>> THEN <<>> ELSE <<",", " ">> \o json_dumps_items(Tail(l)))

json_dumps(l) == <<"[">> \o json_dumps_items(l) \o <<"]">>

\* json.loads of a JSON array of strings
RECURSIVE py_scanstring(_, _, _)
py_scanstring(s, i, acc) ==
    IF s[i] = "\"" THEN [val |-> acc, next |-> i + 1]
    ELSE IF s[i] = "\\"
         THEN IF s[i + 1] = "u"
              THEN py_scanstring(s, i + 6,
                       Append(acc, CHOOSE c \in NonAsciiChars :
                                       UnicodeHex(c) = SubSeq(s, i + 2, i + 5)))
              ELSE py_scanstring(s, i + 2, Append(acc, s[i + 1]))
    ELSE py_scanstring(s, i + 1, Append(acc, s[i]))

RECURSIVE JSONArray(_, _, _)
JSONArray(s, i, acc) ==
    IF s[i] = "]" THEN acc
    ELSE IF s[i] = "\""
         THEN LET r == py_scanstring(s, i + 1, <<>>)
              IN  JSONArray(s, r.next, Append(acc, r.val))
    ELSE JSONArray(s, i + 1, acc)

json_loads(s) == JSONArray(s, 2, <<>>)

\* every order in which list(a_set) can enumerate the set
RECURSIVE Orderings(_)
Orderings(S) ==
    IF S = {} THEN {<<>>}
    ELSE UNION {{<<x>> \o l : l \in Orderings(S \ {x})} : x \in S}

\* what a DatabaseManager call handed its caller: a value, or an exception
Returned(op, args, fault, value) ==
    [op |-> op, args |-> args, fault |-> fault, value |-> value, raised |-> "none"]
Raised(op, args, fault, exc) ==
    [op |-> op, args |-> args, fault |-> fault, value |-> <<>>, raised |-> exc]

\* ------------------------------------------------------------------ flat store

\* db_add_sample_data's sample_photos, abridged to its first two rows with
\* one tag each (the first row's "plyazh", the second row's "nich")
sample_photos ==
    << [path |-> "C:/photos/vacation/beach.jpg", filename |-> "beach.jpg",
        date_taken |-> <<"2", "0", "2", "3", "-", "0", "7", "-", "1", "5", " ",
                         "1", "0", ":", "3", "0", ":", "0", "0">>,
        location |-> <<"U+041F", "U+043B", "U+044F", "U+0436">>,
        camera_model |-> <<"C", "a", "n", "o", "n", " ", "E", "O", "S", " ", "R", "5">>,
        tags |-> << <<"U+043F", "U+043B", "U+044F", "U+0436">> >>],
       [path |-> "C:/photos/city/skyline.png", filename |-> "skyline.png",
        date_taken |-> <<"2", "0", "2", "3", "-", "0", "1", "-", "2", "0", " ",
                         "1", "8", ":", "0", "0", ":", "0", "0">>,
        location |-> <<"U+0426", "U+0435", "U+043D", "U+0442", "U+0440", " ",
                       "U+043C", "U+0456", "U+0441", "U+0442", "U+0430">>,
        camera_model |-> <<"S", "o", "n", "y", " ", "A", "l", "p", "h", "a", " ",
                           "7", " ", "I", "I", "I">>,
        tags |-> << <<"U+043D", "U+0456", "U+0447">> >>] >>

\* INTEGER PRIMARY KEY [AUTOINCREMENT]: one more than the largest rowid
NextRowId(rows) ==
    IF rows = <<>> THEN 1
    ELSE 1 + CHOOSE m \in {rows[i].id : i \in 1..Len(rows)} :
                 \A i \in 1..Len(rows) : rows[i].id <= m

\* INSERT OR REPLACE: the stored row of the path gives way to the sample
InsertPhoto_Replace(rows, p) ==
    LET kept == SelectSeq(rows, LAMBDA r : r.path # p.path)
    IN  Append(kept, [id |-> NextRowId(rows), path |-> p.path, filename |-> p.filename,
                      date_taken |-> p.date_taken, location |-> p.location,
                      camera_model |-> p.camera_model, tags |-> json_dumps(p.tags)])

\* INSERT INTO photos ... of one sample; the UNIQUE path raises IntegrityError,
\* which the loop passes over
InsertPhoto(rows, p) ==
    IF \E i \in 1..Len(rows) : rows[i].path = p.path
    THEN rows
    ELSE Append(rows, [id |-> NextRowId(rows), path |-> p.path, filename |-> p.filename,
                       date_taken |-> p.date_taken, location |-> p.location,
                       camera_model |-> p.camera_model, tags |-> json_dumps(p.tags)])

RECURSIVE db_add_sample_data(_, _)
db_add_sample_data(rows, samples) ==
    IF samples = <<>> THEN rows
    ELSE db_add_sample_data(InsertPhoto(rows, Head(samples)), Tail(samples))

\* the WHERE terms db_get_photos appends to "SELECT * FROM photos WHERE 1=1"
TagTerms(tag_list) ==
    [i \in 1..Len(tag_list) |->
        [column |-> "tags", op |-> "LIKE",
         param |-> <<"%", "\"">> \o tag_list[i] \o <<"\"", "%">>]]

WhereTerms(filters) ==
    (IF Truthy(filters.date_from)
     THEN <<[column |-> "date_taken", op |-> ">=", param |-> filters.date_from]>>
     ELSE <<>>)
    \o (IF Truthy(filters.date_to)
        THEN <<[column |-> "date_taken", op |-> "<=", param |-> filters.date_to]>>
        ELSE <<>>)
    \o (IF Truthy(filters.location)
        THEN <<[column |-> "location", op |-> "LIKE",
                param |-> <<"%">> \o filters.location \o <<"%">>]>>
        ELSE <<>>)
    \o (IF Truthy(filters.camera_model)
        THEN <<[column |-> "camera_model", op |-> "LIKE",
                param |-> <<"%">> \o filters.camera_model \o <<"%">>]>>
        ELSE <<>>)
    \o (IF TruthyList(filters.tags) THEN TagTerms(filters.tags) ELSE <<>>)

\* one term of a WHERE clause on one row; a NULL column makes the term NULL
TermHolds(row, term) ==
    CASE term.op = ">=" -> row[term.column] # None /\ TextLeq(term.param, row[term.column])
      [] term.op = "<=" -> row[term.column] # None /\ TextLeq(row[term.column], term.param)
      [] term.op = "LIKE" -> Like(row[term.column], term.param)

\* mutant: the terms joined by OR
WhereHolds_Any(row, terms) ==
    terms = <<>> \/ \E i \in 1..Len(terms) : TermHolds(row, terms[i])

\* WHERE 1=1 AND term AND term ...
WhereHolds(row, terms) == \A i \in 1..Len(terms) : TermHolds(row, terms[i])

RECURSIVE SelectRows(_, _)
SelectRows(rows, terms) ==
    IF rows = <<>> THEN <<>>
    ELSE (IF WhereHolds(Head(rows), terms) THEN <<Head(rows)>> ELSE <<>>)
         \o SelectRows(Tail(rows), terms)

\* row -> Photo: tags = json.loads(row['tags']) if row['tags'] else []
Photo(row) ==
    [id |-> row.id, path |-> row.path, filename |-> row.filename,
     date_taken |-> row.date_taken, location |-> row.location,
     camera_model |-> row.camera_model,
     tags |-> IF Truthy(row.tags) THEN json_loads(row.tags) ELSE <<>>]

db_get_photos(filters, rows) ==
    LET found == SelectRows(rows, WhereTerms(filters))
    IN  [i \in 1..Len(found) |-> Photo(found[i])]

\* mutant: difference_update before update
NewTagSet_RemoveFirst(row_tags, add_tags, remove_tags) ==
    LET current_tags == IF Truthy(row_tags) THEN Range(json_loads(row_tags)) ELSE {}
        removed == IF TruthyList(remove_tags) THEN current_tags \ Range(remove_tags)
                   ELSE current_tags
    IN  IF TruthyList(add_tags) THEN removed \cup Range(add_tags) ELSE removed

\* the tag set db_update_photo_tags computes from the stored text
NewTagSet(row_tags, add_tags, remove_tags) ==
    LET current_tags == IF Truthy(row_tags) THEN Range(json_loads(row_tags)) ELSE {}
        added == IF TruthyList(add_tags) THEN current_tags \cup Range(add_tags)
                 ELSE current_tags
    IN  IF TruthyList(remove_tags) THEN added \ Range(remove_tags) ELSE added

\* mutant: no check of the SELECT's row; the UPDATE of no row reports success
db_update_photo_tags_NoRowCheck(photo_id, add_tags, remove_tags, success) ==
    /\ success = TRUE
    /\ IF ~ \E i \in 1..Len(photos) : photos[i].id = photo_id
       THEN UNCHANGED photos
       ELSE LET i == CHOOSE k \in 1..Len(photos) : photos[k].id = photo_id
                new == NewTagSet(photos[i].tags, add_tags, remove_tags)
            IN  \E l \in Orderings(new) :
                    photos' = [photos EXCEPT ![i].tags = json_dumps(l)]

\* the UPDATE without its WHERE id = ?
db_update_photo_tags_NoWhere(photo_id, add_tags, remove_tags, success) ==
    IF ~ \E i \in 1..Len(photos) : photos[i].id = photo_id
    THEN success = FALSE /\ UNCHANGED photos
    ELSE LET i == CHOOSE k \in 1..Len(photos) : photos[k].id = photo_id
             new == NewTagSet(photos[i].tags, add_tags, remove_tags)
         IN  /\ success = TRUE
             /\ \E l \in Orderings(new) :
                    photos' = [k \in 1..Len(photos) |->
                                  [photos[k] EXCEPT !.tags = json_dumps(l)]]

\* db_update_photo_tags as a step of the store: success is its return value.
\* list(current_tags) enumerates the set in an order the hash seed decides.
db_update_photo_tags(photo_id, add_tags, remove_tags, success) ==
    IF ~ \E i \in 1..Len(photos) : photos[i].id = photo_id
    THEN success = FALSE /\ UNCHANGED photos
    ELSE LET i == CHOOSE k \in 1..Len(photos) : photos[k].id = photo_id
             new == NewTagSet(photos[i].tags, add_tags, remove_tags)
         IN  /\ success = TRUE
             /\ \E l \in Orderings(new) :
                    photos' = [photos EXCEPT ![i].tags = json_dumps(l)]

\* ------------------------------------------------------------------ API layer

NoResponse ==
    [op |-> "none", req |-> <<>>, fault |-> FALSE, db |-> "none", status |-> 0, body |-> <<>>]

\* @app.on_event("startup"): init_db creates the table if it is missing,
\* db_add_sample_data inserts the samples whose path is not stored yet
startup_event ==
    /\ photos' = db_add_sample_data(photos, sample_photos)
    /\ started' = TRUE
    /\ UNCHANGED <<resp, tasks, normVars, conns>>

\* GET /photos.  fault: the store fails (sqlite3.connect or execute raises);
\* db_get_photos has no handler, so the error leaves it and the request ends 500
get_photos(filters, fault) ==
    /\ started
    /\ resp' = IF fault
               THEN [op |-> "GET /photos", req |-> filters, fault |-> TRUE,
                     db |-> "raised", status |-> 500, body |-> <<>>]
               ELSE [op |-> "GET /photos", req |-> filters, fault |-> FALSE,
                     db |-> "returned", status |-> 200,
                     body |-> db_get_photos(filters, photos)]
    /\ UNCHANGED <<photos, started, tasks, normVars, conns>>

\* what both tag endpoints do with db_update_photo_tags's answer
TagsResponse(op, req, success) ==
    [op |-> op, req |-> req, fault |-> FALSE, db |-> IF success THEN "True" ELSE "False",
     status |-> IF success THEN 200 ELSE 404, body |-> <<>>]

TagsFailure(op, req) ==
    [op |-> op, req |-> req, fault |-> TRUE, db |-> "raised", status |-> 500, body |-> <<>>]

\* PUT /photos/{photo_id}/tags
update_photo_tags(photo_id, tag_update, fault) ==
    LET req == [photo_id |-> photo_id, add_tags |-> tag_update.add_tags,
                remove_tags |-> tag_update.remove_tags]
    IN  /\ started
        /\ IF fault
           THEN resp' = TagsFailure("PUT /photos/{photo_id}/tags", req) /\ UNCHANGED photos
           ELSE \E success \in BOOLEAN :
                   /\ db_update_photo_tags(photo_id, tag_update.add_tags,
                                           tag_update.remove_tags, success)
                   /\ resp' = TagsResponse("PUT /photos/{photo_id}/tags", req, success)
        /\ UNCHANGED <<started, tasks, normVars, conns>>

\* DELETE /photos/{photo_id}/tags
delete_photo_tags(photo_id, tags_to_delete, fault) ==
    LET req == [photo_id |-> photo_id, add_tags |-> NoneList,
                remove_tags |-> tags_to_delete]
    IN  /\ started
        /\ IF fault
           THEN resp' = TagsFailure("DELETE /photos/{photo_id}/tags", req)
                /\ UNCHANGED photos
           ELSE \E success \in BOOLEAN :
                   /\ db_update_photo_tags(photo_id, NoneList, tags_to_delete, success)
                   /\ resp' = TagsResponse("DELETE /photos/{photo_id}/tags", req, success)
        /\ UNCHANGED <<started, tasks, normVars, conns>>

\* Two server processes on the one database file.  Every call of
\* db_update_photo_tags opens its own connection; sqlite3 opens a transaction
\* only at the UPDATE, so the SELECT of one connection and the UPDATE ...
\* commit of another are separate steps of the database.  (Inside one event
\* loop the handlers are coroutines without an await and run one by one.)
Conns == {1, 2}

NoConn ==
    [pc |-> "idle", op |-> "none", photo_id |-> 0, add_tags |-> NoneList,
     remove_tags |-> NoneList, row |-> None]

\* get_db_connection ... SELECT tags FROM photos WHERE id = ?; fetchone;
\* without a row the call closes the connection and returns False
db_update_photo_tags_select(c, op, photo_id, add_tags, remove_tags) ==
    LET req == [photo_id |-> photo_id, add_tags |-> add_tags, remove_tags |-> remove_tags]
        call == [pc |-> "selected", op |-> op, photo_id |-> photo_id,
                 add_tags |-> add_tags, remove_tags |-> remove_tags, row |-> None]
    IN  /\ started
        /\ conns[c].pc = "idle"
        /\ IF ~ \E i \in 1..Len(photos) : photos[i].id = photo_id
           THEN /\ conns' = [conns EXCEPT ![c] = [call EXCEPT !.pc = "closed"]]
                /\ resp' = TagsResponse(op, req, FALSE)
           ELSE /\ conns' = [conns EXCEPT ![c] =
                       [call EXCEPT !.row = photos[CHOOSE k \in 1..Len(photos) :
                                                      photos[k].id = photo_id].tags]]
                /\ UNCHANGED resp
        /\ UNCHANGED <<photos, started, tasks, normVars>>

\* ... set(json.loads(row['tags'])), update, difference_update, json.dumps,
\* UPDATE photos SET tags = ? WHERE id = ?, commit, close, return True
db_update_photo_tags_update(c) ==
    LET call == conns[c]
        i == CHOOSE k \in 1..Len(photos) : photos[k].id = call.photo_id
        new == NewTagSet(call.row, call.add_tags, call.remove_tags)
    IN  /\ call.pc = "selected"
        /\ \E l \in Orderings(new) : photos' = [photos EXCEPT ![i].tags = json_dumps(l)]
        /\ conns' = [conns EXCEPT ![c].pc = "closed"]
        /\ resp' = TagsResponse(call.op, [photo_id |-> call.photo_id,
                        add_tags |-> call.add_tags, remove_tags |-> call.remove_tags], TRUE)
        /\ UNCHANGED <<started, tasks, normVars>>

\* a background task as BackgroundTasks holds it: the coroutine function and
\* where its run stands (scheduled; sleeping inside asyncio.sleep)
Task(fn) == [fn |-> fn, pc |-> "scheduled"]

SyncResponse(service, status) ==
    [op |-> "POST /cloud/sync", req |-> [service |-> service], fault |-> FALSE,
     db |-> "none", status |-> status, body |-> <<>>]

\* mutant: an unknown service falls back to Google Drive
initiate_cloud_sync_Fallback(service) ==
    /\ started
    /\ Len(tasks) < MaxTasks
    /\ tasks' = Append(tasks, Task(IF service = "dropbox" THEN "sync_with_dropbox"
                                   ELSE "sync_with_google_drive"))
    /\ resp' = SyncResponse(service, 200)
    /\ UNCHANGED <<photos, started, normVars, conns>>

\* POST /cloud/sync
initiate_cloud_sync(service) ==
    /\ started
    /\ IF service = "google_drive"
       THEN /\ Len(tasks) < MaxTasks
            /\ tasks' = Append(tasks, Task("sync_with_google_drive"))
            /\ resp' = SyncResponse(service, 200)
       ELSE IF service = "dropbox"
       THEN /\ Len(tasks) < MaxTasks
            /\ tasks' = Append(tasks, Task("sync_with_dropbox"))
            /\ resp' = SyncResponse(service, 200)
       ELSE /\ resp' = SyncResponse(service, 400)
            /\ UNCHANGED tasks
    /\ UNCHANGED <<photos, started, normVars, conns>>

RemoveAt(q, i) == SubSeq(q, 1, i - 1) \o SubSeq(q, i + 1, Len(q))

\* a sync that, when it completes, takes the first photo out of the store
SyncStep_MovesPhoto(i, fn) ==
    /\ i \in 1..Len(tasks)
    /\ tasks[i].fn = fn
    /\ tasks' = IF tasks[i].pc = "scheduled"
                THEN [tasks EXCEPT ![i].pc = "sleeping"]
                ELSE RemoveAt(tasks, i)
    /\ photos' = IF tasks[i].pc = "sleeping" /\ photos # <<>> THEN Tail(photos) ELSE photos
    /\ UNCHANGED <<started, resp, normVars, conns>>

\* one step of a scheduled coroutine: up to its await of asyncio.sleep, then
\* from there to its return, which ends the task
SyncStep(i, fn) ==
    /\ i \in 1..Len(tasks)
    /\ tasks[i].fn = fn
    /\ tasks' = IF tasks[i].pc = "scheduled"
                THEN [tasks EXCEPT ![i].pc = "sleeping"]
                ELSE RemoveAt(tasks, i)
    /\ UNCHANGED <<photos, started, resp, normVars, conns>>

sync_with_google_drive(i) == SyncStep(i, "sync_with_google_drive")

sync_with_dropbox(i) == SyncStep(i, "sync_with_dropbox")

\* ------------------------------------------------------------------ request inputs

Cat == <<"c", "a", "t">>
CapitalCat == <<"C", "a", "t">>
SixInch == <<"6", "\"">>
Percent == <<"%">>
CUnderscoreT == <<"c", "_", "t">>
Plyazh == <<"U+043F", "U+043B", "U+044F", "U+0436">>
Nich == <<"U+043D", "U+0456", "U+0447">>

\* photo ids of requests: the sample rows and one id that is never stored
PhotoIds == 1..(Len(sample_photos) + 1)

\* the tags a request stores are Cat and SixInch; CapitalCat is only removed
TagUpdateInputs ==
    { [add_tags |-> NoneList, remove_tags |-> NoneList],
      [add_tags |-> <<Cat>>, remove_tags |-> NoneList],
      [add_tags |-> <<SixInch>>, remove_tags |-> <<>>],
      [add_tags |-> <<Cat, Cat>>, remove_tags |-> <<CapitalCat>>],
      [add_tags |-> <<Cat, SixInch>>, remove_tags |-> NoneList],
      [add_tags |-> <<Cat>>, remove_tags |-> <<Cat>>],
      [add_tags |-> <<SixInch>>, remove_tags |-> <<Plyazh, Cat>>],
      [add_tags |-> <<>>, remove_tags |-> <<SixInch, Nich>>] }

DeleteInputs == { <<Plyazh>>, <<Cat, CapitalCat>> }

\* the tag mutations of the listing specification
ListUpdateInputs ==
    { [add_tags |-> <<Cat>>, remove_tags |-> NoneList],
      [add_tags |-> <<SixInch>>, remove_tags |-> NoneList],
      [add_tags |-> NoneList, remove_tags |-> <<Cat>>] }

Filter(df, dt, tg, loc, cam) ==
    [date_from |-> df, date_to |-> dt, tags |-> tg, location |-> loc, camera_model |-> cam]

TagFilterInputs ==
    { <<Plyazh>>, <<Nich>>, <<Cat>>, <<CapitalCat>>, <<SixInch>>, <<Percent>>,
      <<CUnderscoreT>>, <<Cat, Plyazh>>, <<Cat, CapitalCat>>, <<Cat, SixInch>>,
      <<Cat, Cat>> }

Date0101 == <<"2", "0", "2", "3", "-", "0", "1", "-", "0", "1">>
Date0630 == <<"2", "0", "2", "3", "-", "0", "6", "-", "3", "0">>

LocationInputs ==
    { <<"U+041F", "U+043B", "U+044F", "U+0436">>,
      <<"U+043F", "U+043B", "U+044F", "U+0436">>,
      <<"U+043C", "U+0456", "U+0441", "U+0442">>,
      <<"U+043B", "_", "U+0436">>,
      <<"%">> }

CameraInputs ==
    { <<"C", "a", "n", "o", "n">>,
      <<"c", "a", "n", "o", "n">>,
      <<"E", "O", "S", "_", "R", "5">>,
      <<"a", "%", "n">>,
      <<"I", "I", "I">> }

\* every combination of one value or none per filter field, and the
\* single-field filters over the tag, location and camera inputs
FilterInputs ==
    { Filter(df, dt, tg, loc, cam) :
        df \in {None, Date0101}, dt \in {None, Date0630},
        tg \in {NoneList, <<Cat>>},
        loc \in {None, <<"U+043B", "U+044F">>}, cam \in {None, <<"o", "n">>} }
    \cup { Filter(None, <<>>, tg, None, None) : tg \in TagFilterInputs \cup {<<>>} }
    \cup { Filter(None, None, NoneList, loc, None) : loc \in LocationInputs }
    \cup { Filter(None, None, NoneList, None, cam) : cam \in CameraInputs }

\* ------------------------------------------------------------------ SpecFlat

InitAll ==
    /\ photos = <<>>
    /\ started = FALSE
    /\ resp = NoResponse
    /\ tasks = <<>>
    /\ images = <<>>
    /\ tags = <<>>
    /\ image_tags = {}
    /\ ret = Returned("none", <<>>, FALSE, <<>>)
    /\ conns = [c \in Conns |-> NoConn]

\* the flat store under tag mutations
MutationFilterInputs ==
    { Filter(None, None, NoneList, None, None),
      Filter(None, None, <<Cat>>, None, None),
      Filter(None, None, <<SixInch>>, None, None) }

NextFlat ==
    \/ startup_event
    \/ \E f \in MutationFilterInputs : get_photos(f, FALSE)
    \/ \E id \in PhotoIds, u \in TagUpdateInputs : update_photo_tags(id, u, FALSE)
    \/ \E id \in PhotoIds, t \in DeleteInputs : delete_photo_tags(id, t, FALSE)

SpecFlat == InitAll /\ [][NextFlat]_vars

\* the flat store under listings
NextList ==
    \/ startup_event
    \/ \E f \in FilterInputs : get_photos(f, FALSE)
    \/ \E u \in ListUpdateInputs : update_photo_tags(1, u, FALSE)
    \/ \E id \in PhotoIds \ {1} :
          update_photo_tags(id, [add_tags |-> <<Cat>>, remove_tags |-> NoneList], FALSE)
    \/ \E id \in PhotoIds : delete_photo_tags(id, <<Plyazh, Nich>>, FALSE)

SpecList == InitAll /\ [][NextList]_vars

\* ------------------------------------------------------------------ normalized store

\* PRAGMA foreign_keys: _connect opens the connection and never turns it on,
\* so it keeps SQLite's default and the REFERENCES clauses are not enforced
foreign_keys == FALSE

\* None, as an Optional[int] (rowids start at 1)
NoId == 0

\* mutant: file_path without its UNIQUE constraint
add_image_NoUnique(file_path, capture_date, camera_model, fault) ==
    /\ images' = Append(images,
            [id |-> NextRowId(images), file_path |-> file_path,
             capture_date |-> capture_date, camera_model |-> camera_model,
             latitude |-> None, longitude |-> None])
    /\ Len(images) < 3
    /\ ret' = Returned("add_image", <<file_path, capture_date, camera_model>>, fault,
                       NextRowId(images))
    /\ UNCHANGED <<tags, image_tags, flatVars>>

\* add_image.  fault: execute raises a sqlite3.Error other than IntegrityError
add_image(file_path, capture_date, camera_model, fault) ==
    LET args == <<file_path, capture_date, camera_model>>
    IN  IF fault
        THEN /\ ret' = Returned("add_image", args, fault, NoId)
             /\ UNCHANGED <<images, tags, image_tags, flatVars>>
        ELSE IF \E i \in 1..Len(images) : images[i].file_path = file_path
        THEN \* UNIQUE file_path: IntegrityError
             /\ ret' = Returned("add_image", args, fault, NoId)
             /\ UNCHANGED <<images, tags, image_tags, flatVars>>
        ELSE /\ images' = Append(images,
                     [id |-> NextRowId(images), file_path |-> file_path,
                      capture_date |-> capture_date, camera_model |-> camera_model,
                      latitude |-> None, longitude |-> None])
             /\ ret' = Returned("add_image", args, fault, NextRowId(images))
             /\ UNCHANGED <<tags, image_tags, flatVars>>

\* tags.name without its UNIQUE constraint: every call inserts
add_tag_NoUnique(tag_name, fault) ==
    /\ NextRowId(tags) <= MaxTagId + 1
    /\ tags' = Append(tags, [id |-> NextRowId(tags), name |-> tag_name])
    /\ ret' = Returned("add_tag", <<tag_name>>, fault, NextRowId(tags))
    /\ UNCHANGED <<images, image_tags, flatVars>>

\* add_tag: the id of the new row, or on IntegrityError the id of the row
\* that carries the name
add_tag(tag_name, fault) ==
    IF fault
    THEN /\ ret' = Returned("add_tag", <<tag_name>>, fault, NoId)
         /\ UNCHANGED <<images, tags, image_tags, flatVars>>
    ELSE IF \E i \in 1..Len(tags) : tags[i].name = tag_name
    THEN /\ ret' = Returned("add_tag", <<tag_name>>, fault,
                       tags[CHOOSE i \in 1..Len(tags) : tags[i].name = tag_name].id)
         /\ UNCHANGED <<images, tags, image_tags, flatVars>>
    ELSE /\ NextRowId(tags) <= MaxTagId
         /\ tags' = Append(tags, [id |-> NextRowId(tags), name |-> tag_name])
         /\ ret' = Returned("add_tag", <<tag_name>>, fault, NextRowId(tags))
         /\ UNCHANGED <<images, image_tags, flatVars>>

\* INSERT without OR IGNORE: a stored pair raises IntegrityError, answered False
link_tag_to_image_NoIgnore(image_id, tag_id, fault) ==
    IF [image_id |-> image_id, tag_id |-> tag_id] \in image_tags
    THEN /\ ret' = Returned("link_tag_to_image", <<image_id, tag_id>>, fault, FALSE)
         /\ UNCHANGED <<images, tags, image_tags, flatVars>>
    ELSE /\ image_tags' = image_tags \cup {[image_id |-> image_id, tag_id |-> tag_id]}
         /\ ret' = Returned("link_tag_to_image", <<image_id, tag_id>>, fault, TRUE)
         /\ UNCHANGED <<images, tags, flatVars>>

\* link_tag_to_image: INSERT OR IGNORE INTO image_tags.  With foreign keys
\* enforced a missing parent row raises IntegrityError, answered False.
link_tag_to_image(image_id, tag_id, fault) ==
    LET parents == /\ \E i \in 1..Len(images) : images[i].id = image_id
                   /\ \E i \in 1..Len(tags) : tags[i].id = tag_id
    IN  IF fault \/ (foreign_keys /\ ~parents)
        THEN /\ ret' = Returned("link_tag_to_image", <<image_id, tag_id>>, fault, FALSE)
             /\ UNCHANGED <<images, tags, image_tags, flatVars>>
        ELSE /\ image_tags' = image_tags \cup {[image_id |-> image_id, tag_id |-> tag_id]}
             /\ ret' = Returned("link_tag_to_image", <<image_id, tag_id>>, fault, TRUE)
             /\ UNCHANGED <<images, tags, flatVars>>

\* rows left in a table after DELETE ... WHERE id = ?
RECURSIVE DeleteById(_, _)
DeleteById(rows, id) ==
    IF rows = <<>> THEN <<>>
    ELSE (IF Head(rows).id = id THEN <<>> ELSE <<Head(rows)>>) \o DeleteById(Tail(rows), id)

\* delete_tag: DELETE FROM tags WHERE id = ?, True iff a row went; the
\* ON DELETE CASCADE of image_tags acts only with foreign keys enforced
delete_tag(tag_id, fault) ==
    IF fault
    THEN /\ ret' = Returned("delete_tag", <<tag_id>>, fault, FALSE)
         /\ UNCHANGED <<images, tags, image_tags, flatVars>>
    ELSE /\ tags' = DeleteById(tags, tag_id)
         /\ image_tags' = IF foreign_keys /\ Len(tags') < Len(tags)
                          THEN {l \in image_tags : l.tag_id # tag_id}
                          ELSE image_tags
         /\ ret' = Returned("delete_tag", <<tag_id>>, fault, Len(tags') < Len(tags))
         /\ UNCHANGED <<images, flatVars>>

\* the SELECT of get_images_by_tags: images JOIN image_tags JOIN tags
\* WHERE t.name IN (names) GROUP BY i.id HAVING COUNT(DISTINCT t.id) = len(names)
DistinctTagIds(image, tag_names) ==
    {tags[t].id : t \in {k \in 1..Len(tags) :
                            /\ tags[k].name \in Range(tag_names)
                            /\ \E l \in image_tags :
                                  l.image_id = image.id /\ l.tag_id = tags[k].id}}

RECURSIVE GroupsHaving(_, _)
GroupsHaving(rows, tag_names) ==
    IF rows = <<>> THEN <<>>
    ELSE (IF /\ DistinctTagIds(Head(rows), tag_names) # {}
             /\ Cardinality(DistinctTagIds(Head(rows), tag_names)) = Len(tag_names)
          THEN <<Head(rows)>> ELSE <<>>)
         \o GroupsHaving(Tail(rows), tag_names)

ImagesByTags(tag_names) ==
    IF tag_names = <<>> THEN <<>> ELSE GroupsHaving(images, tag_names)

get_images_by_tags(tag_names, fault) ==
    /\ ret' = Returned("get_images_by_tags", tag_names, fault,
                       IF fault THEN <<>> ELSE ImagesByTags(tag_names))
    /\ UNCHANGED <<images, tags, image_tags, flatVars>>

\* ORDER BY name: insertion of a row into rows already in name order
RECURSIVE InsertByName(_, _)
InsertByName(sorted, row) ==
    IF sorted = <<>> THEN <<row>>
    ELSE IF TextLess(row.name, Head(sorted).name) THEN <<row>> \o sorted
    ELSE <<Head(sorted)>> \o InsertByName(Tail(sorted), row)

RECURSIVE OrderByName(_)
OrderByName(rows) ==
    IF rows = <<>> THEN <<>>
    ELSE InsertByName(OrderByName(Tail(rows)), Head(rows))

\* get_all_tags has no handler: a failing execute leaves it as the exception
get_all_tags(fault) ==
    /\ ret' = IF fault
              THEN Raised("get_all_tags", <<>>, fault, "sqlite3.OperationalError")
              ELSE Returned("get_all_tags", <<>>, fault, OrderByName(tags))
    /\ UNCHANGED <<images, tags, image_tags, flatVars>>

\* the WHERE terms get_images_by_metadata appends
MetadataTerms(start_date, end_date, camera_model) ==
    (IF Truthy(start_date)
     THEN <<[column |-> "capture_date", op |-> ">=", param |-> start_date]>> ELSE <<>>)
    \o (IF Truthy(end_date)
        THEN <<[column |-> "capture_date", op |-> "<=", param |-> end_date]>> ELSE <<>>)
    \o (IF Truthy(camera_model)
        THEN <<[column |-> "camera_model", op |-> "LIKE",
                param |-> <<"%">> \o camera_model \o <<"%">>]>>
        ELSE <<>>)

get_images_by_metadata(start_date, end_date, camera_model, fault) ==
    /\ ret' = Returned("get_images_by_metadata", <<start_date, end_date, camera_model>>,
                       fault,
                       IF fault THEN <<>>
                       ELSE SelectRows(images,
                                MetadataTerms(start_date, end_date, camera_model)))
    /\ UNCHANGED <<images, tags, image_tags, flatVars>>

\* DatabaseManager(db_path) on the database file.  failure "connect":
\* sqlite3.connect raises, _connect prints it and leaves cursor None, and
\* _create_tables then raises AttributeError, which no handler catches.
\* failure "create": a CREATE TABLE raises sqlite3.Error, which is printed.
DatabaseManager_init(failure) ==
    /\ ret' = IF failure = "connect"
              THEN Raised("__init__", <<>>, TRUE, "AttributeError")
              ELSE Returned("__init__", <<>>, failure # "none", <<>>)
    /\ UNCHANGED <<images, tags, image_tags, flatVars>>

\* ------------------------------------------------------------------ SpecNorm

City == <<"C", "i", "t", "y">>
Nature == <<"N", "a", "t", "u", "r", "e">>
Date0115 == <<"2", "0", "2", "3", "-", "0", "1", "-", "1", "5", " ",
              "1", "0", ":", "0", "0", ":", "0", "0">>
CanonEOSR5 == <<"C", "a", "n", "o", "n", " ", "E", "O", "S", " ", "R", "5">>

PathInputs == {"/path/to/img1.jpg", "/path/to/img2.png"}
TagNameInputs == {City, Nature}
\* ids of link and delete calls: rows that exist, rows not there yet or gone
ImageIdInputs == 1..Cardinality(PathInputs)
TagIdInputs == 1..MaxTagId
TagNameListInputs ==
    { <<City>>, <<Nature>>, <<City, Nature>>, <<City, City>>, <<>> }

NextNorm ==
    \/ \E p \in PathInputs : add_image(p, Date0115, CanonEOSR5, FALSE)
    \/ \E n \in TagNameInputs : add_tag(n, FALSE)
    \/ \E i \in ImageIdInputs, t \in TagIdInputs : link_tag_to_image(i, t, FALSE)
    \/ \E t \in TagIdInputs : delete_tag(t, FALSE)
    \/ \E l \in TagNameListInputs : get_images_by_tags(l, FALSE)

SpecNorm == InitAll /\ [][NextNorm]_vars

\* ------------------------------------------------------------------ claims: flat store

TagOps == {"PUT /photos/{photo_id}/tags", "DELETE /photos/{photo_id}/tags"}

StoredIds == {photos[i].id : i \in 1..Len(photos)}
RowOf(id) == photos[CHOOSE i \in 1..Len(photos) : photos[i].id = id]
\* the tag set a stored row decodes to
TagSetOf(row) == Range(Photo(row).tags)
ListedIds == {resp.body[i].id : i \in 1..Len(resp.body)}
Listed == resp.op = "GET /photos" /\ resp.status = 200

IsSubstring(sub, s) ==
    \E i \in 0..(Len(s) - Len(sub)) : SubSeq(s, i + 1, i + Len(sub)) = sub

OnlyTags(f) ==
    /\ TruthyList(f.tags)
    /\ ~Truthy(f.date_from) /\ ~Truthy(f.date_to)
    /\ ~Truthy(f.location) /\ ~Truthy(f.camera_model)

\* C2: a listing with only a tag filter F returns exactly the records whose
\* decoded tag set is a superset of F, whatever characters the tags hold.
C2_TagFilterIsSuperset ==
    (Listed /\ OnlyTags(resp.req)) =>
        ListedIds = {id \in StoredIds : Range(resp.req.tags) \subseteq TagSetOf(RowOf(id))}

\* C4: a successful tag mutation stores a duplicate-free list whose elements
\* are exactly (T union add) minus remove, T being the tags stored before;
\* on a photo without tags, add = {x} with remove = {x} leaves no tag.
C4_UpdateIsAddThenRemove ==
    [][(resp'.op \in TagOps /\ resp'.db = "True") =>
         \A req \in {resp'.req} :
         \A T \in {TagSetOf(RowOf(req.photo_id))} :
         \A after \in {photos'} :
         \A stored \in {json_loads(after[CHOOSE k \in 1..Len(after) :
                                             after[k].id = req.photo_id].tags)} :
            LET add == IF TruthyList(req.add_tags) THEN Range(req.add_tags) ELSE {}
                rem == IF TruthyList(req.remove_tags) THEN Range(req.remove_tags) ELSE {}
            IN  /\ Len(stored) = Cardinality(Range(stored))
                /\ Range(stored) = (T \cup add) \ rem
                /\ (T = {} /\ add = rem => stored = <<>>)]_vars

C4_Witness ==
    /\ resp.op = "PUT /photos/{photo_id}/tags" /\ resp.db = "True"
    /\ resp.req.add_tags = <<Cat>> /\ resp.req.remove_tags = <<Cat>>
    /\ RowOf(resp.req.photo_id).tags = <<"[", "]">>

\* C6: a tag mutation is answered not-found (False from the store, 404 from
\* the endpoint) exactly when its id matches no stored photo, and such a
\* request leaves every stored photo as it was.
C6_UnknownIdIsNotFound ==
    /\ [](resp.op \in TagOps =>
            IF resp.req.photo_id \in StoredIds
            THEN resp.db = "True" /\ resp.status = 200
            ELSE resp.db = "False" /\ resp.status = 404)
    /\ [][(resp'.op \in TagOps /\ resp'.status = 404) => photos' = photos]_vars

C6_Witness ==
    /\ resp.op \in TagOps /\ resp.status = 404 /\ resp.db = "False"
    /\ resp.req.photo_id \notin StoredIds
    /\ TruthyList(resp.req.remove_tags)

\* the listing with one filter field alone
OnlyDateFrom(f) == Filter(f.date_from, None, NoneList, None, None)
OnlyDateTo(f) == Filter(None, f.date_to, NoneList, None, None)
OnlyTag(t) == Filter(None, None, <<t>>, None, None)
OnlyLocation(f) == Filter(None, None, NoneList, f.location, None)
OnlyCamera(f) == Filter(None, None, NoneList, None, f.camera_model)
IdsListedFor(f) ==
    LET found == db_get_photos(f, photos) IN {found[i].id : i \in 1..Len(found)}

\* C8: filters combine conjunctively: a listing returns a record iff the
\* listing with each supplied filter field alone (each requested tag
\* separately) returns it; a field left out constrains nothing, and a listing
\* without any filter returns every stored record.
C8_FiltersAreConjunctive ==
    Listed =>
        LET f == resp.req
        IN  /\ ListedIds =
                 {id \in StoredIds :
                    /\ Truthy(f.date_from) => id \in IdsListedFor(OnlyDateFrom(f))
                    /\ Truthy(f.date_to) => id \in IdsListedFor(OnlyDateTo(f))
                    /\ TruthyList(f.tags) =>
                          \A t \in Range(f.tags) : id \in IdsListedFor(OnlyTag(t))
                    /\ Truthy(f.location) => id \in IdsListedFor(OnlyLocation(f))
                    /\ Truthy(f.camera_model) => id \in IdsListedFor(OnlyCamera(f))}
            /\ Len(resp.body) = Cardinality(ListedIds)
            /\ (/\ ~Truthy(f.date_from) /\ ~Truthy(f.date_to) /\ ~TruthyList(f.tags)
                /\ ~Truthy(f.location) /\ ~Truthy(f.camera_model))
               => ListedIds = StoredIds

\* a listing with two filter fields that keeps one record and drops the other
C8_Witness ==
    /\ Listed
    /\ Truthy(resp.req.date_from) /\ TruthyList(resp.req.tags)
    /\ Cardinality(ListedIds) = 1
    /\ Cardinality(IdsListedFor(OnlyTag(resp.req.tags[1]))) = 2
    /\ Cardinality(IdsListedFor(OnlyDateFrom(resp.req))) = 2

\* C9: the location and camera-model filters are case-sensitive literal
\* substring matches (% and _ are ordinary characters), and a null field
\* never matches.
C9_SubstringIsLiteral ==
    /\ (Listed /\ resp.req = OnlyLocation(resp.req) /\ Truthy(resp.req.location)) =>
          ListedIds = {id \in StoredIds :
                         /\ RowOf(id).location # None
                         /\ IsSubstring(resp.req.location, RowOf(id).location)}
    /\ (Listed /\ resp.req = OnlyCamera(resp.req) /\ Truthy(resp.req.camera_model)) =>
          ListedIds = {id \in StoredIds :
                         /\ RowOf(id).camera_model # None
                         /\ IsSubstring(resp.req.camera_model, RowOf(id).camera_model)}

\* ------------------------------------------------------------------ claims: normalized store

ImageIds == {images[i].id : i \in 1..Len(images)}
ReturnedIds == {ret.value[i].id : i \in 1..Len(ret.value)}

\* the image has an image_tags row to a tags row that carries the name
LinkedToName(image_id, name) ==
    \E k \in 1..Len(tags) :
        /\ tags[k].name = name
        /\ [image_id |-> image_id, tag_id |-> tags[k].id] \in image_tags

\* C1: when delete_tag(t) removes the tag row, no image_tags row refers to t
\* afterwards and get_images_by_tags of any list with t's name returns nothing.
C1_DeleteTagCascades ==
    [][Len(tags') < Len(tags) =>
         \A t \in {ret'.args[1]} :
         \A name \in {tags[k].name : k \in {j \in 1..Len(tags) : tags[j].id = t}} :
            /\ \A l \in image_tags' : l.tag_id # t
            /\ \A names \in TagNameListInputs :
                  name \in Range(names) => ImagesByTags(names)' = <<>>]_vars

\* C3: get_images_by_tags of a non-empty list returns exactly the images
\* linked to all the named tags, each image once, also when the list repeats
\* a name or names no tag.
C3_AllNamedTags ==
    (ret.op = "get_images_by_tags" /\ ret.args # <<>>) =>
        /\ ReturnedIds = {id \in ImageIds : \A n \in Range(ret.args) : LinkedToName(id, n)}
        /\ Len(ret.value) = Cardinality(ReturnedIds)

\* C5: no two image rows share a file_path; add_image of a stored path adds
\* no row, changes no row and returns None, and add_image of a new path
\* returns the integer id of the row it appended.
C5_DuplicatePathIsNone ==
    /\ [](\A i, j \in 1..Len(images) : images[i].file_path = images[j].file_path => i = j)
    /\ [][ret'.op = "add_image" =>
            IF \E i \in 1..Len(images) : images[i].file_path = ret'.args[1]
            THEN images' = images /\ ret'.value = NoId
            ELSE /\ ret'.value # NoId
                 /\ Len(images') = Len(images) + 1
                 /\ SubSeq(images', 1, Len(images)) = images
                 /\ images'[Len(images')].id = ret'.value
                 /\ images'[Len(images')].file_path = ret'.args[1]
                 /\ ret'.value \notin ImageIds]_vars

C5_Witness ==
    /\ ret.op = "add_image" /\ ret.value = NoId
    /\ \E i \in 1..Len(images) : images[i].file_path = ret.args[1]
    /\ Len(images) = Cardinality(PathInputs)

\* ------------------------------------------------------------------ SpecSync

ServiceInputs == {"google_drive", "dropbox", "carrier_pigeon", "Google_Drive", ""}

NextSync ==
    \/ startup_event
    \/ \E service \in ServiceInputs : initiate_cloud_sync(service)
    \/ \E i \in 1..MaxTasks : sync_with_google_drive(i)
    \/ \E i \in 1..MaxTasks : sync_with_dropbox(i)
    \/ \E f \in MutationFilterInputs : get_photos(f, FALSE)
    \/ update_photo_tags(1, [add_tags |-> <<Cat>>, remove_tags |-> NoneList], FALSE)
    \/ delete_photo_tags(1, <<Cat>>, FALSE)

SpecSync == InitAll /\ [][NextSync]_vars

Supported == {"google_drive", "dropbox"}
TaskFor(service) ==
    Task(IF service = "google_drive" THEN "sync_with_google_drive" ELSE "sync_with_dropbox")

\* C7: a sync request naming a service other than "google_drive" or "dropbox"
\* is answered 400 and schedules nothing; one naming a supported service is
\* answered 200 and schedules exactly the one task of that service; nothing
\* else schedules a task.
C7_UnknownServiceIsRejected ==
    /\ [](resp.op = "POST /cloud/sync" =>
            resp.status = (IF resp.req.service \in Supported THEN 200 ELSE 400))
    /\ [][(resp'.op = "POST /cloud/sync" /\ resp' # resp) =>
            IF resp'.req.service \in Supported
            THEN tasks' = Append(tasks, TaskFor(resp'.req.service))
            ELSE tasks' = tasks]_vars
    /\ [][Len(tasks') > Len(tasks) =>
            /\ resp'.op = "POST /cloud/sync" /\ resp'.status = 200
            /\ tasks' = Append(tasks, TaskFor(resp'.req.service))]_vars

C7_Witness ==
    /\ resp.op = "POST /cloud/sync" /\ resp.req.service = "carrier_pigeon"
    /\ resp.status = 400
    /\ Len(tasks) = 1 /\ tasks[1].pc = "sleeping"

\* ------------------------------------------------------------------ SpecFault

\* both stores with failing statements: one image, one tag, one photo edited
NextFault ==
    \/ \E failure \in {"none", "connect", "create"} : DatabaseManager_init(failure)
    \/ \E fault \in BOOLEAN : add_image("/path/to/img1.jpg", Date0115, CanonEOSR5, fault)
    \/ \E fault \in BOOLEAN : add_tag(City, fault)
    \/ \E fault \in BOOLEAN : link_tag_to_image(1, 1, fault)
    \/ \E fault \in BOOLEAN : delete_tag(1, fault)
    \/ \E fault \in BOOLEAN : get_images_by_tags(<<City>>, fault)
    \/ \E fault \in BOOLEAN : get_all_tags(fault)
    \/ \E fault \in BOOLEAN : get_images_by_metadata(None, None, CanonEOSR5, fault)
    \/ startup_event
    \/ \E fault \in BOOLEAN : get_photos(Filter(None, None, NoneList, None, None), fault)
    \/ \E fault \in BOOLEAN :
          update_photo_tags(1, [add_tags |-> <<Cat>>, remove_tags |-> NoneList], fault)
    \/ \E fault \in BOOLEAN : delete_photo_tags(1, <<Cat>>, fault)

SpecFault == InitAll /\ [][NextFault]_vars

\* C10: when the store fails, every store operation of both variants hands
\* its caller an empty or false result (empty list, None, False) and raises
\* nothing.
C10_StoreFailureIsSwallowed ==
    /\ ret.fault =>
          /\ ret.raised = "none"
          /\ ret.op \in {"add_image", "add_tag"} => ret.value = NoId
          /\ ret.op \in {"link_tag_to_image", "delete_tag"} => ret.value = FALSE
          /\ ret.op \in {"get_images_by_tags", "get_images_by_metadata", "get_all_tags"}
                => ret.value = <<>>
    /\ resp.fault => resp.db # "raised"

\* ------------------------------------------------------------------ search placeholder

\* str.lower() on one character: the ASCII capitals and the Cyrillic capitals
\* of the model's alphabet have a one-character lower case
py_lower ==
    [c \in Range(CodeOrder) |->
        IF Ord(c) >= Ord("A") /\ Ord(c) <= Ord("Z")
        THEN CodeOrder[Ord(c) - Ord("A") + Ord("a")]
        ELSE IF c = "U+041F" THEN "U+043F"
        ELSE IF c = "U+0426" THEN "U+0446"
        ELSE c]

str_lower(s) == [i \in 1..Len(s) |-> py_lower[s[i]]]

\* str.split(): the maximal runs of non-whitespace characters, in order
RECURSIVE str_split(_, _, _)
str_split(s, i, word) ==
    IF i > Len(s) THEN (IF word = <<>> THEN <<>> ELSE <<word>>)
    ELSE IF s[i] = " "
         THEN (IF word = <<>> THEN <<>> ELSE <<word>>) \o str_split(s, i + 1, <<>>)
    ELSE str_split(s, i + 1, Append(word, s[i]))

\* sub in s, on str
RECURSIVE str_in(_, _)
str_in(sub, s) ==
    IF Len(sub) > Len(s) THEN FALSE
    ELSE IF SubSeq(s, 1, Len(sub)) = sub THEN TRUE
    ELSE str_in(sub, Tail(s))

\* the query words matched against the tags as they are, without tag.lower()
found_in_tags_NoLower(query_lower, entry_tags) ==
    \E w \in 1..Len(str_split(query_lower, 1, <<>>)), t \in 1..Len(entry_tags) :
        str_in(str_split(query_lower, 1, <<>>)[w], entry_tags[t])

\* any(query_word in tag.lower() for query_word in query_lower.split() for tag in tags)
found_in_tags(query_lower, entry_tags) ==
    \E w \in 1..Len(str_split(query_lower, 1, <<>>)), t \in 1..Len(entry_tags) :
        str_in(str_split(query_lower, 1, <<>>)[w], str_lower(entry_tags[t]))

found_in_ocr(query_lower, ocr_text) == str_in(query_lower, str_lower(ocr_text))

\* the loop over image_metadata_list, appending the paths that match
RECURSIVE matching_images(_, _)
matching_images(query_lower, image_metadata_list) ==
    IF image_metadata_list = <<>> THEN <<>>
    ELSE LET metadata == Head(image_metadata_list)
         IN  (IF \/ found_in_tags(query_lower, metadata.tags)
                 \/ found_in_ocr(query_lower, metadata.ocr_text)
              THEN <<metadata.path>> ELSE <<>>)
             \o matching_images(query_lower, Tail(image_metadata_list))

semantic_search_placeholder(query, image_metadata_list) ==
    /\ ret' = Returned("semantic_search_placeholder", <<query, image_metadata_list>>,
                       FALSE, matching_images(str_lower(query), image_metadata_list))
    /\ UNCHANGED <<images, tags, image_tags, flatVars>>

\* ------------------------------------------------------------------ SpecSearch

CapitalPlyazh == <<"U+041F", "U+043B", "U+044F", "U+0436">>
Pet == <<"p", "e", "t">>
Park == <<"p", "a", "r", "k">>

\* {path, tags, ocr_text} entries: tags and text in mixed case, an entry
\* without tags and text
MetadataInputs ==
    { [path |-> "another_image_with_cat.jpg", tags |-> <<CapitalCat, Pet>>,
       ocr_text |-> <<"M", "y", " ", "C", "a", "t">>],
      [path |-> "park_scene.jpeg", tags |-> <<Park>>,
       ocr_text |-> <<"c", "a", "t", " ", "p", "a", "r", "k">>],
      [path |-> "beach.jpg", tags |-> <<CapitalPlyazh>>, ocr_text |-> <<>>],
      [path |-> "blank.png", tags |-> <<>>, ocr_text |-> <<>>] }

MaxEntries == 2

RECURSIVE SeqsUpTo(_, _)
SeqsUpTo(S, n) ==
    IF n = 0 THEN {<<>>}
    ELSE SeqsUpTo(S, n - 1)
         \cup {Append(l, x) : l \in {m \in SeqsUpTo(S, n - 1) : Len(m) = n - 1}, x \in S}

\* the empty query, one word, several words partly or wholly covered by the
\* tags, words in capitals, a part of a tag, whitespace only
QueryInputs ==
    { <<>>, Cat, <<"C", "A", "T">>, Plyazh,
      <<"c", "a", "t", " ", "p", "a", "r", "k">>,
      <<"m", "y", " ", "c", "a", "t">>,
      <<"c", "a", "t", " ", " ", "P", "E", "T">>,
      <<"a", "r">>, <<" ">>, <<"d", "o", "g">> }

NextSearch ==
    \E query \in QueryInputs, l \in SeqsUpTo(MetadataInputs, MaxEntries) :
        semantic_search_placeholder(query, l)

SpecSearch == InitAll /\ [][NextSearch]_vars

\* the words of a query: its runs of non-space characters between spaces or ends
Words(q) ==
    {SubSeq(q, p[1], p[2]) :
        p \in {r \in (1..Len(q)) \X (1..Len(q)) :
                 /\ r[1] <= r[2]
                 /\ \A k \in r[1]..r[2] : q[k] # " "
                 /\ (r[1] = 1 \/ q[r[1] - 1] = " ")
                 /\ (r[2] = Len(q) \/ q[r[2] + 1] = " ")}}

InSomeTag(word, entry) ==
    \E t \in 1..Len(entry.tags) : IsSubstring(str_lower(word), str_lower(entry.tags[t]))
InText(q, entry) == IsSubstring(str_lower(q), str_lower(entry.ocr_text))

EveryWordMatches(entry) == \A w \in Words(ret.args[1]) : InSomeTag(w, entry)
SomeWordMatches(entry) == \E w \in Words(ret.args[1]) : InSomeTag(w, entry)
TextMatches(entry) == InText(ret.args[1], entry)
EveryWordOrText(entry) == EveryWordMatches(entry) \/ TextMatches(entry)
SomeWordOrText(entry) == SomeWordMatches(entry) \/ TextMatches(entry)
PathsOf(l) == [i \in 1..Len(l) |-> l[i].path]

Searched == ret.op = "semantic_search_placeholder"

\* C11: the search returns, in input order, exactly the paths of the entries
\* for which every word of the query occurs, ignoring case, in some tag, or
\* the whole query occurs, ignoring case, in the extracted text.
C11_EveryWordInSomeTag ==
    Searched => ret.value = PathsOf(SelectSeq(ret.args[2], EveryWordOrText))

\* C11 as amended: ... for which some word of the query occurs, ignoring
\* case, in some tag, or the whole query occurs, ignoring case, in the text.
C11_SomeWordInSomeTag ==
    Searched => ret.value = PathsOf(SelectSeq(ret.args[2], SomeWordOrText))

\* a two-word query of which the tags of the one entry found cover one word
C11_Witness ==
    /\ Searched
    /\ Cardinality(Words(ret.args[1])) = 2
    /\ Len(ret.args[2]) = 2 /\ Len(ret.value) = 1
    /\ \E i \in 1..2 : /\ SomeWordMatches(ret.args[2][i])
                       /\ ~EveryWordMatches(ret.args[2][i])
                       /\ ~TextMatches(ret.args[2][i])

\* ------------------------------------------------------------------ claims: tags and links

TagIds == {tags[i].id : i \in 1..Len(tags)}
TagRowsNamed(rows, name) == {k \in 1..Len(rows) : rows[k].name = name}

\* C12: no two tag rows share a name; add_tag of a stored name adds no row
\* and returns the stored row's id, add_tag of a new name returns the id of
\* the one row that now carries it; two add_tag calls with the same name
\* and no delete_tag between them return the same id.
C12_AddTagReturnsTheOneRow ==
    /\ [](\A i, j \in 1..Len(tags) : tags[i].name = tags[j].name => i = j)
    /\ [][ret'.op = "add_tag" =>
            \A name \in {ret'.args[1]} : \A after \in {tags'} :
               /\ TagRowsNamed(tags, name) # {} => after = tags
               /\ Cardinality(TagRowsNamed(after, name)) = 1
               /\ \A k \in TagRowsNamed(after, name) : after[k].id = ret'.value]_vars
    /\ [][ret'.op # "delete_tag" => \A k \in 1..Len(tags) : tags'[k] = tags[k]]_vars
    /\ [][(ret.op = "add_tag" /\ ret'.op = "add_tag" /\ ret'.args = ret.args)
            => ret'.value = ret.value]_vars

\* add_tag of the first of two stored names: the older row's id comes back
C12_Witness ==
    /\ ret.op = "add_tag" /\ Len(tags) = 2
    /\ tags[1].name = ret.args[1] /\ ret.value = tags[1].id
    /\ ret.value < tags[2].id

\* C13: link_tag_to_image returns True exactly when the association is stored
\* afterwards (created by the call, or stored before it); a call for a stored
\* pair changes nothing, a call for a new pair adds that pair and no other.
\* (image_tags is a set of pairs: its PRIMARY KEY (image_id, tag_id).)
C13_LinkIsIdempotent ==
    [][ret'.op = "link_tag_to_image" =>
         \A pair \in {[image_id |-> ret'.args[1], tag_id |-> ret'.args[2]]} :
            /\ ret'.value = (pair \in image_tags')
            /\ ret'.value = TRUE
            /\ pair \in image_tags => image_tags' = image_tags
            /\ image_tags' = image_tags \cup {pair}
            /\ images' = images /\ tags' = tags]_vars

\* a link answered True with another association of the same image stored
C13_Witness ==
    /\ ret.op = "link_tag_to_image" /\ ret.value = TRUE
    /\ [image_id |-> ret.args[1], tag_id |-> ret.args[2]] \in image_tags
    /\ \E l \in image_tags : l.image_id = ret.args[1] /\ l.tag_id # ret.args[2]

\* ------------------------------------------------------------------ claims: background sync

SyncAcknowledged == resp.op = "POST /cloud/sync" /\ resp.status = 200

\* C14: the answer to a sync request is there while its task has not yet
\* started; a step that schedules, runs or completes a sync task leaves the
\* photo store as it is, and every listing is the listing of the stored
\* photos, whatever tasks are pending.
C14_SyncLeavesStoreAlone ==
    /\ [][Len(tasks') > Len(tasks) =>
            /\ SyncAcknowledged'
            /\ Len(tasks') = Len(tasks) + 1
            /\ tasks'[Len(tasks')].pc = "scheduled"]_vars
    /\ [][tasks' # tasks => photos' = photos /\ started' = started]_vars
    /\ [][(Listed' /\ resp' # resp) =>
            /\ resp'.body = db_get_photos(resp'.req, photos)
            /\ tasks' = tasks /\ photos' = photos]_vars

\* a listing of both photos answered while one sync sleeps and another waits
C14_Witness ==
    /\ Listed /\ Len(resp.body) = Len(sample_photos)
    /\ Len(tasks) = 2
    /\ tasks[1].pc = "sleeping" /\ tasks[2].pc = "scheduled"
    /\ tasks[1].fn # tasks[2].fn

\* ------------------------------------------------------------------ claims: integrity

\* C15: every image_tags row refers to an image row and a tag row that are
\* both stored.
C15_ReferentialIntegrity ==
    \A l \in image_tags : l.image_id \in ImageIds /\ l.tag_id \in TagIds

\* C16: a tag name's listing is empty until link_tag_to_image is called with
\* the id of the tag that carries the name: the listing of a name goes from
\* empty to non-empty only in such a link step, never in the add_tag step that
\* creates the tag (nor in any other step).
C16_NewTagStartsEmpty ==
    [][\A n \in TagNameInputs :
          (ImagesByTags(<<n>>) = <<>> /\ ImagesByTags(<<n>>)' # <<>>) =>
              /\ ret'.op = "link_tag_to_image"
              /\ \E k \in 1..Len(tags) : tags[k].name = n /\ tags[k].id = ret'.args[2]]_vars

\* ------------------------------------------------------------------ SpecConc

\* the tag mutations the two processes handle, one each
ConcurrentInputs ==
    { [op |-> "PUT /photos/{photo_id}/tags", photo_id |-> 1,
       add_tags |-> <<Cat>>, remove_tags |-> NoneList],
      [op |-> "PUT /photos/{photo_id}/tags", photo_id |-> 1,
       add_tags |-> <<SixInch>>, remove_tags |-> <<Cat>>],
      [op |-> "DELETE /photos/{photo_id}/tags", photo_id |-> 1,
       add_tags |-> NoneList, remove_tags |-> <<Plyazh>>],
      [op |-> "PUT /photos/{photo_id}/tags", photo_id |-> 2,
       add_tags |-> <<Cat>>, remove_tags |-> NoneList],
      [op |-> "PUT /photos/{photo_id}/tags", photo_id |-> Len(sample_photos) + 1,
       add_tags |-> <<Cat>>, remove_tags |-> NoneList] }

NextConc ==
    \/ startup_event
    \/ \E c \in Conns, r \in ConcurrentInputs :
          db_update_photo_tags_select(c, r.op, r.photo_id, r.add_tags, r.remove_tags)
    \/ \E c \in Conns : db_update_photo_tags_update(c)
    \/ get_photos(Filter(None, None, NoneList, None, None), FALSE)

SpecConc == InitAll /\ [][NextConc]_vars

\* one mutation applied to a tag set
Applied(T, call) ==
    (T \cup (IF TruthyList(call.add_tags) THEN Range(call.add_tags) ELSE {}))
    \ (IF TruthyList(call.remove_tags) THEN Range(call.remove_tags) ELSE {})

BothClosedOn(id) ==
    /\ id \in StoredIds
    /\ \A c \in Conns : conns[c].pc = "closed" /\ conns[c].photo_id = id

SamplePaths == {sample_photos[i].path : i \in 1..Len(sample_photos)}
WithoutTags(row) ==
    [id |-> row.id, path |-> row.path, filename |-> row.filename,
     date_taken |-> row.date_taken, location |-> row.location,
     camera_model |-> row.camera_model]
Edited(i) == photos[i].tags # json_dumps(sample_photos[i].tags)

\* C18: once the startup sequence has run, in every state tag mutations lead
\* to, each sample path has exactly one row, and running the startup sequence
\* again leaves every row, its tags included, as it is.
C18_StartupIsIdempotent ==
    started =>
        /\ \A p \in SamplePaths : Cardinality({i \in 1..Len(photos) : photos[i].path = p}) = 1
        /\ Len(photos) = Len(sample_photos)
        /\ db_add_sample_data(photos, sample_photos) = photos

\* the store with the tags of both photos edited, where startup runs again
C18_Witness ==
    /\ started /\ Len(photos) = Len(sample_photos)
    /\ \A i \in 1..Len(photos) : Edited(i)
    /\ Cat \in TagSetOf(photos[1]) /\ Plyazh \notin TagSetOf(photos[1])

\* C19: once the store is set up, a step changes a photo only as a successful
\* tag mutation of that photo's id, and then only its tags field: the number
\* of photos, every other field and every other photo stay as they are; a
\* listing and a mutation answered not-found change nothing.
C19_OnlyTheTagsOfThatPhoto ==
    [][started =>
         \A before \in {photos} : \A after \in {photos'} :
            /\ Len(after) = Len(before)
            /\ \A i \in 1..Len(before) : WithoutTags(after[i]) = WithoutTags(before[i])
            /\ \A i \in 1..Len(before) :
                  after[i].tags # before[i].tags =>
                      /\ resp'.op \in TagOps /\ resp'.db = "True"
                      /\ before[i].id = resp'.req.photo_id
            /\ (resp' # resp /\ ~(resp'.op \in TagOps /\ resp'.db = "True"))
                  => after = before]_vars

\* a mutation of photo 2 has stored its tags while photo 1 keeps an earlier edit
C19_Witness ==
    /\ resp.op \in TagOps /\ resp.db = "True" /\ resp.req.photo_id = 2
    /\ Len(photos) = Len(sample_photos)
    /\ SixInch \in TagSetOf(photos[2]) /\ TagSetOf(photos[1]) = {Cat}

\* ------------------------------------------------------------------ SpecDates

Date0120 == <<"2", "0", "2", "3", "-", "0", "1", "-", "2", "0">>
Date0715 == <<"2", "0", "2", "3", "-", "0", "7", "-", "1", "5">>
Date0131 == <<"2", "0", "2", "3", "-", "0", "1", "-", "3", "1">>
Date0131At10 == Date0131 \o <<" ", "1", "0", ":", "0", "0", ":", "0", "0">>

\* date-only bounds: the days of the sample photos and days between them
DateFilterInputs ==
    { Filter(df, dt, NoneList, None, None) :
        df \in {None, Date0101, Date0120}, dt \in {None, Date0120, Date0630, Date0715} }

\* both stores under date-range queries; the January 2023 range of the demo
NextDates ==
    \/ startup_event
    \/ \E f \in DateFilterInputs : get_photos(f, FALSE)
    \/ \E p \in PathInputs, d \in {Date0115, Date0131At10} :
          add_image(p, d, CanonEOSR5, FALSE)
    \/ \E sd \in {None, Date0101, Date0131}, ed \in {None, Date0131} :
          get_images_by_metadata(sd, ed, None, FALSE)

SpecDates == InitAll /\ [][NextDates]_vars

\* the day of a 'YYYY-MM-DD hh:mm:ss' timestamp
DayOf(timestamp) == SubSeq(timestamp, 1, 10)
OnOrAfter(timestamp, from) == from = None \/ TextLeq(from, DayOf(timestamp))
OnOrBefore(timestamp, to) == to = None \/ TextLeq(DayOf(timestamp), to)

\* C20: with date-only bounds a record is returned exactly when its capture
\* day lies between date_from and date_to, both end days included, by
\* db_get_photos and by get_images_by_metadata.
C20_RangeIncludesEndDays ==
    /\ Listed =>
          ListedIds = {id \in StoredIds :
                         /\ OnOrAfter(RowOf(id).date_taken, resp.req.date_from)
                         /\ OnOrBefore(RowOf(id).date_taken, resp.req.date_to)}
    /\ ret.op = "get_images_by_metadata" =>
          ReturnedIds = {images[i].id : i \in {k \in 1..Len(images) :
                             /\ OnOrAfter(images[k].capture_date, ret.args[1])
                             /\ OnOrBefore(images[k].capture_date, ret.args[2])}}

====
